---- MODULE Spec2Model ----
(***************************************************************************)
(* A model of the agentic log parser: the template library                 *)
(* (knowledge/template_store.py), the learning engine                      *)
(* (pipeline/learning.py) and the two-phase run of the orchestrator        *)
(* (pipeline/orchestrator.py, pipeline/matching.py).                       *)
(*                                                                         *)
(* Strings are sequences of one-character strings, so that the formatting  *)
(* of an id ("<source>-<seq:04d>") and its parsing back                    *)
(* (int(id.rsplit("-", 1)[-1])) are computed, not assumed.                 *)
(*                                                                         *)
(* A regex text is modelled by what re.compile and fullmatch make of it:   *)
(* whether it compiles and the set of canonical texts it fully matches.    *)
(***************************************************************************)
EXTENDS Integers, Sequences, FiniteSets, TLC

VARIABLES
    file,       \* the persisted template-library document of the source
    library,    \* the TemplateLibrary: templates, _compiled, _sequence
    ret,        \* what the last call returned or raised (a library operation,
                \* a queue operation, a collaborator call, or process)
    lines,      \* the run's input: the canonical text of every line, in order
    idx,        \* number of lines phase 1 has taken from the input
    pc,         \* position of the run inside process / process_line
    examples,   \* example_cache: template id -> canonical text
    metrics,    \* MetricsStore.pipeline counters
    tasks,      \* InteractionService._queue
    counter,    \* InteractionService._counter
    cand,       \* the candidate regex of the line being learned
    conflicts,  \* result of _detect_conflicts for the candidate
    plan,       \* the adjudicator's decision
    outcome,    \* what the last processed line ended as
    rows,       \* phase 2: the emitted labeled rows
    report,     \* the reviewer's verdict in the last review call for the line
    catalog,    \* SourceCatalog: its persisted document and its entries
    cached      \* TemplateStore._cache holds the library of the source

vars == <<file, library, ret, lines, idx, pc, examples, metrics, tasks, counter,
          cand, conflicts, plan, outcome, rows, report, catalog, cached>>

pipeVars == <<lines, idx, pc, examples, metrics, tasks, counter, cand, conflicts,
              plan, outcome, rows, report, catalog, cached>>

-----------------------------------------------------------------------------
(* Bounds of the model *)

MaxLines == 3        \* longest input of a run
MaxSeq == 4          \* library operations: largest value of _sequence explored
MaxTemplates == 2    \* library operations: most records in the mapping
MaxTasks == 3        \* escalation queue on its own: most tasks enqueued
MaxHistory == 2      \* escalation queue on its own: most notes on one task
MaxProcessed == 3    \* several calls of process: most lines taken over all calls

-----------------------------------------------------------------------------
(* Texts and regexes *)

\* Canonical texts of lines; "" is a line that normalises to nothing.
Canon == {"", "a", "b"}

\* A regex text that re.compile rejects.
BadRegex == [ok |-> FALSE, lang |-> {}]

\* The languages of the regex texts that compile: one matching no line of
\* Canon, one line, the other, both, and every text (as ".*" does)
Langs == {{}, {"a"}, {"b"}, {"a", "b"}, {"", "a", "b"}}

\* The regex texts: the one that does not compile, and one per language.
Regexes == {BadRegex} \cup {[ok |-> TRUE, lang |-> S] : S \in Langs}

\* re.compile(regex) does not raise re.error
Compiles(regex) == regex.ok

\* pattern.fullmatch(text) is not None, for a compiled pattern
FullMatch(regex, text) == text \in regex.lang

-----------------------------------------------------------------------------
(* Ids: formatting and parsing *)

PadWidth == 4

Digits == <<"0", "1", "2", "3", "4", "5", "6", "7", "8", "9">>

DigitSet == {Digits[i] : i \in 1..10}

DigitValue(c) == CHOOSE d \in 0..9 : Digits[d + 1] = c

RECURSIVE ToDigits(_)
ToDigits(n) ==
    IF n < 10 THEN <<Digits[n + 1]>>
    ELSE ToDigits(n \div 10) \o <<Digits[(n % 10) + 1]>>

\* f"{n:04d}": zero-padded to PadWidth, longer when the number needs it
Format04d(n) ==
    LET d == ToDigits(n)
    IN  IF Len(d) >= PadWidth THEN d
        ELSE [i \in 1..(PadWidth - Len(d)) |-> "0"] \o d

\* template_id.rsplit("-", 1)[-1]: what follows the last "-", or the whole id
RSplitLast(s) ==
    LET dashes == {i \in 1..Len(s) : s[i] = "-"}
    IN  IF dashes = {} THEN s
        ELSE LET last == CHOOSE i \in dashes : \A j \in dashes : j <= i
             IN  SubSeq(s, last + 1, Len(s))

\* int(text) does not raise ValueError (over the characters of the model)
IsNumeric(s) == Len(s) > 0 /\ \A i \in 1..Len(s) : s[i] \in DigitSet

RECURSIVE IntOf(_)
IntOf(s) ==
    IF Len(s) = 0 THEN 0
    ELSE 10 * IntOf(SubSeq(s, 1, Len(s) - 1)) + DigitValue(s[Len(s)])

\* The source id of the run's library.
SourceId == <<"s">>

\* The id a fresh TemplateRecord carries: template_id=""
NoId == <<>>

-----------------------------------------------------------------------------
(* TemplateLibrary *)

\* TemplateLibrary.__init__ before any load: no record, no matcher, _sequence 1
EmptyLibrary == [templates |-> <<>>, compiled |-> <<>>, sequence |-> 1]

\* Position of the record stored under id in the insertion-ordered mapping, 0 if none
IndexOf(templates, id) ==
    IF \E i \in 1..Len(templates) : templates[i].template_id = id
    THEN CHOOSE i \in 1..Len(templates) : templates[i].template_id = id
    ELSE 0

TemplateIds(templates) == {templates[i].template_id : i \in 1..Len(templates)}

\* The assignment as it would be if a new key went first in the mapping
PutRecord_Prepends(templates, record) ==
    LET i == IndexOf(templates, record.template_id)
    IN  IF i = 0 THEN <<record>> \o templates
        ELSE [templates EXCEPT ![i] = record]

\* self.templates[id] = record: a known key keeps its position, a new one goes last
PutRecord(templates, record) ==
    LET i == IndexOf(templates, record.template_id)
    IN  IF i = 0 THEN Append(templates, record)
        ELSE [templates EXCEPT ![i] = record]

\* self._compiled[id] = pattern
PutCompiled(compiled, id, regex) ==
    [k \in (DOMAIN compiled) \cup {id} |-> IF k = id THEN regex ELSE compiled[k]]

\* allocate_id: the id returned, and the library with _sequence advanced
AllocatedId(lib) == SourceId \o <<"-">> \o Format04d(lib.sequence)

\* allocate_id as it would be without line 68
allocate_id_NoAdvance(lib) == lib

allocate_id(lib) == [lib EXCEPT !.sequence = lib.sequence + 1]

\* add: the id the record is stored under
AddId(lib, record) ==
    IF record.template_id = NoId THEN AllocatedId(lib) ELSE record.template_id

\* add raises re.error at its last statement, the compile
AddRaises(lib, record) == ~Compiles(record.regex)

\* add: the library when add returns or raises. The id is assigned and the
\* record is put in the mapping before the pattern is compiled.
add(lib, record) ==
    LET l1 == IF record.template_id = NoId THEN allocate_id(lib) ELSE lib
        stored == [record EXCEPT !.template_id = AddId(lib, record)]
        l2 == [l1 EXCEPT !.templates = PutRecord(l1.templates, stored)]
    IN  IF Compiles(record.regex)
        THEN [l2 EXCEPT !.compiled = PutCompiled(l2.compiled, stored.template_id, record.regex)]
        ELSE l2

\* deactivate as it would be if it deleted the record from the mapping
deactivate_Removes(lib, id) ==
    LET i == IndexOf(lib.templates, id)
    IN  IF i = 0 THEN lib
        ELSE [lib EXCEPT !.templates = SubSeq(lib.templates, 1, i - 1)
                                        \o SubSeq(lib.templates, i + 1, Len(lib.templates))]

\* deactivate: is_active = False when the id is a key, else nothing
deactivate(lib, id) ==
    LET i == IndexOf(lib.templates, id)
    IN  IF i = 0 THEN lib
        ELSE [lib EXCEPT !.templates[i].is_active = FALSE]

\* match as it would be without the is_active test of line 84
RECURSIVE MatchFrom_IgnoresActive(_, _, _, _)
MatchFrom_IgnoresActive(templates, compiled, text, i) ==
    IF i > Len(templates)
    THEN [hit |-> 0, raised |-> FALSE, compiled |-> compiled]
    ELSE LET record == templates[i]
             id == record.template_id
         IN  IF id \in DOMAIN compiled
             THEN IF FullMatch(compiled[id], text)
                  THEN [hit |-> i, raised |-> FALSE, compiled |-> compiled]
                  ELSE MatchFrom_IgnoresActive(templates, compiled, text, i + 1)
             ELSE IF ~Compiles(record.regex)
             THEN [hit |-> 0, raised |-> TRUE, compiled |-> compiled]
             ELSE LET c2 == PutCompiled(compiled, id, record.regex)
                  IN  IF FullMatch(record.regex, text)
                      THEN [hit |-> i, raised |-> FALSE, compiled |-> c2]
                      ELSE MatchFrom_IgnoresActive(templates, c2, text, i + 1)

\* match as it would be if the latest-inserted matching record won
MatchFrom_LastWins(templates, compiled, text, i) ==
    LET hits == {j \in i..Len(templates) :
                    /\ templates[j].is_active
                    /\ Compiles(templates[j].regex)
                    /\ FullMatch(templates[j].regex, text)}
    IN  [hit |-> IF hits = {} THEN 0 ELSE CHOOSE j \in hits : \A k \in hits : k <= j,
         raised |-> FALSE, compiled |-> compiled]

\* match, from position i of the mapping on: hit is the position of the record
\* returned (0 for None), raised tells a re.error left the call, compiled is
\* the matcher cache when the call ends.
RECURSIVE MatchFrom(_, _, _, _)
MatchFrom(templates, compiled, text, i) ==
    IF i > Len(templates)
    THEN [hit |-> 0, raised |-> FALSE, compiled |-> compiled]
    ELSE LET record == templates[i]
             id == record.template_id
         IN  IF ~record.is_active
             THEN MatchFrom(templates, compiled, text, i + 1)
             ELSE IF id \in DOMAIN compiled
             THEN IF FullMatch(compiled[id], text)
                  THEN [hit |-> i, raised |-> FALSE, compiled |-> compiled]
                  ELSE MatchFrom(templates, compiled, text, i + 1)
             ELSE IF ~Compiles(record.regex)
             THEN [hit |-> 0, raised |-> TRUE, compiled |-> compiled]
             ELSE LET c2 == PutCompiled(compiled, id, record.regex)
                  IN  IF FullMatch(record.regex, text)
                      THEN [hit |-> i, raised |-> FALSE, compiled |-> c2]
                      ELSE MatchFrom(templates, c2, text, i + 1)

match(lib, text) == MatchFrom(lib.templates, lib.compiled, text, 1)

\* match as it would be if a call consumed the record it returns
AfterMatch_Consumes(lib, text) ==
    LET m == match(lib, text)
    IN  IF m.hit = 0 THEN [lib EXCEPT !.compiled = m.compiled]
        ELSE [lib EXCEPT !.compiled = m.compiled, !.templates[m.hit].is_active = FALSE]

\* The library after a match call: only the matcher cache can have grown
AfterMatch(lib, text) == [lib EXCEPT !.compiled = match(lib, text).compiled]

\* TemplateRecord.to_dict: the fields of the record (source_id and notes are
\* written and read back as they are and are left out of the model)
to_dict(record) ==
    [template_id |-> record.template_id, regex |-> record.regex,
     is_active |-> record.is_active]

\* TemplateRecord.from_dict: is_active is True when the document omits it
from_dict(data) ==
    [template_id |-> data.template_id, regex |-> data.regex,
     is_active |-> IF "is_active" \in DOMAIN data THEN data.is_active ELSE TRUE]

\* _load, record by record: raised tells re.compile rejected a stored regex
RECURSIVE LoadFrom(_, _, _)
LoadFrom(lib, records, i) ==
    IF i > Len(records) THEN [lib |-> lib, raised |-> FALSE]
    ELSE LET record == from_dict(records[i])
             l1 == [lib EXCEPT !.templates = PutRecord(lib.templates, record)]
         IN  IF ~Compiles(record.regex) THEN [lib |-> l1, raised |-> TRUE]
             ELSE LET l2 == [l1 EXCEPT !.compiled =
                                 PutCompiled(l1.compiled, record.template_id, record.regex)]
                      suffix == RSplitLast(record.template_id)
                      l3 == IF IsNumeric(suffix) /\ IntOf(suffix) + 1 > l2.sequence
                            THEN [l2 EXCEPT !.sequence = IntOf(suffix) + 1]
                            ELSE l2
                  IN  LoadFrom(l3, records, i + 1)

\* The persisted document: present or not, whether json.loads accepts its
\* text, and its "templates" list
NoFile == [exists |-> FALSE, parses |-> TRUE, templates |-> <<>>]

\* TemplateLibrary as it would be if a document that cannot be loaded were
\* taken for an empty store
NewLibrary_EmptyOnFailure(f) == [lib |-> EmptyLibrary, raised |-> FALSE]

\* TemplateLibrary(source_id, path): loads when the path exists
NewLibrary(f) ==
    IF ~f.exists THEN [lib |-> EmptyLibrary, raised |-> FALSE]
    ELSE IF ~f.parses THEN [lib |-> EmptyLibrary, raised |-> TRUE]
    ELSE LoadFrom(EmptyLibrary, f.templates, 1)

\* save: every record of the mapping, in order, inactive ones included
save(lib) ==
    [exists |-> TRUE, parses |-> TRUE,
     templates |-> [i \in 1..Len(lib.templates) |-> to_dict(lib.templates[i])]]

-----------------------------------------------------------------------------
(* The source catalog (knowledge/source_catalog.py): a descriptor per source
   id; the model keeps the ids *)

\* The catalog document: present or not, whether json.loads accepts its text,
\* and the source ids it holds
NoCatalog == [exists |-> FALSE, parses |-> TRUE, entries |-> {}]

\* A source other than the one the router identifies
OtherSource == <<"o">>

\* SourceCatalog(path): entries start empty and are loaded when the path
\* exists; raised tells json.loads rejected the text
NewCatalog(doc) ==
    IF doc.exists /\ ~doc.parses THEN [entries |-> {}, raised |-> TRUE]
    ELSE [entries |-> IF doc.exists THEN doc.entries ELSE {}, raised |-> FALSE]

\* SourceCatalog.register
register(entries, source_id) == entries \cup {source_id}

\* SourceCatalog.save: the snapshot of the entries replaces the document
catalog_save(entries) == [exists |-> TRUE, parses |-> TRUE, entries |-> entries]

\* No orchestrator around: no catalog document, no entries
IdleCatalog == [path |-> NoCatalog, entries |-> {}]

-----------------------------------------------------------------------------
(* The library on its own: any interleaving of its operations *)

\* A fresh TemplateRecord(template_id="", regex=...), active by default
NewRecord(regex) == [template_id |-> NoId, regex |-> regex, is_active |-> TRUE]

Rx(S) == [ok |-> TRUE, lang |-> S]

\* Regex texts handed to the library's operations
LibRegexes == {BadRegex, Rx({"a"}), Rx({"a", "b"})}

\* Ids found in persisted documents or supplied on re-import: the padded ids
\* allocate_id produces, an unpadded one, one with a non-numeric suffix and
\* one of another source
IdPool ==
    { SourceId \o <<"-">> \o Format04d(1),
      SourceId \o <<"-">> \o Format04d(2),
      <<"s", "-", "3">>,
      <<"s", "-", "x">>,
      <<"o", "-", "0", "0", "0", "2">> }

\* Ids supplied with a re-imported record
ImportIds ==
    { SourceId \o <<"-">> \o Format04d(2), <<"s", "-", "3">> }

\* Regex texts of re-imported records
ImportRegexes == {BadRegex, Rx({"a"})}

\* Persisted documents a library may be constructed over
InitFiles ==
    {NoFile} \cup
    { [exists |-> TRUE, parses |-> TRUE,
       templates |-> <<[template_id |-> id, regex |-> Rx({"a"}), is_active |-> act]>>]
      : id \in IdPool, act \in BOOLEAN }

NoRet == [op |-> "new", raised |-> FALSE, id |-> NoId, hit |-> 0, text |-> ""]

IdlePipeline ==
    /\ lines = <<>>
    /\ idx = 0
    /\ pc = "library"
    /\ examples = <<>>
    /\ metrics = [processed_lines |-> 0, matched_lines |-> 0,
                  learned_templates |-> 0, escalations |-> 0]
    /\ tasks = <<>>
    /\ counter = 1
    /\ cand = BadRegex
    /\ conflicts = <<>>
    /\ plan = [decision |-> "none", has_regex |-> FALSE, new_regex |-> BadRegex,
               replaced_ids |-> {}]
    /\ outcome = "none"
    /\ rows = <<>>
    /\ report = "none"
    /\ catalog = IdleCatalog
    /\ cached = FALSE

LibInit ==
    /\ file \in InitFiles
    /\ library = NewLibrary(file).lib
    /\ ret = NoRet
    /\ IdlePipeline

\* TemplateLibrary(source_id, path) over the current document; when _load
\* raises, no new library exists and the caller keeps the one it had
LibReload ==
    LET r == NewLibrary(file)
    IN  /\ library' = IF r.raised THEN library ELSE r.lib
        /\ ret' = [op |-> "load", raised |-> r.raised, id |-> NoId, hit |-> 0, text |-> ""]
        /\ UNCHANGED <<file, pipeVars>>

LibSave ==
    /\ file' = save(library)
    /\ ret' = [op |-> "save", raised |-> FALSE, id |-> NoId, hit |-> 0, text |-> ""]
    /\ UNCHANGED <<library, pipeVars>>

LibAllocateId ==
    /\ library.sequence < MaxSeq
    /\ library' = allocate_id(library)
    /\ ret' = [op |-> "allocate_id", raised |-> FALSE, id |-> AllocatedId(library), hit |-> 0, text |-> ""]
    /\ UNCHANGED <<file, pipeVars>>

LibAddAbsentId ==
    \E regex \in LibRegexes :
        LET record == NewRecord(regex)
        IN  /\ library.sequence < MaxSeq
            /\ Len(library.templates) < MaxTemplates
            /\ library' = add(library, record)
            /\ ret' = [op |-> "add", raised |-> AddRaises(library, record),
                       id |-> AddId(library, record), hit |-> 0, text |-> ""]
            /\ UNCHANGED <<file, pipeVars>>

LibAddExplicitId ==
    \E id \in ImportIds, regex \in ImportRegexes, act \in BOOLEAN :
        LET record == [template_id |-> id, regex |-> regex, is_active |-> act]
        IN  /\ \/ IndexOf(library.templates, id) # 0
               \/ Len(library.templates) < MaxTemplates
            /\ library' = add(library, record)
            /\ ret' = [op |-> "add_explicit", raised |-> AddRaises(library, record),
                       id |-> id, hit |-> 0, text |-> ""]
            /\ UNCHANGED <<file, pipeVars>>

LibDeactivate ==
    \E id \in IdPool :
        /\ library' = deactivate(library, id)
        /\ ret' = [op |-> "deactivate", raised |-> FALSE, id |-> id, hit |-> 0, text |-> ""]
        /\ UNCHANGED <<file, pipeVars>>

LibMatch ==
    \E text \in Canon :
        LET m == match(library, text)
        IN  /\ library' = AfterMatch(library, text)
            /\ ret' = [op |-> "match", raised |-> m.raised, id |-> NoId, hit |-> m.hit,
                       text |-> text]
            /\ UNCHANGED <<file, pipeVars>>

\* Use of a library by add without id only (what the pipeline does), with
\* save and reload
IdNext ==
    \/ LibReload
    \/ LibSave
    \/ LibAddAbsentId
    \/ LibDeactivate
    \/ LibMatch

IdSpec == LibInit /\ [][IdNext]_vars

\* Every operation of the library, re-import of explicit ids included
LibNext ==
    \/ LibReload
    \/ LibSave
    \/ LibAllocateId
    \/ LibAddAbsentId
    \/ LibAddExplicitId
    \/ LibDeactivate
    \/ LibMatch

LibSpec == LibInit /\ [][LibNext]_vars

-----------------------------------------------------------------------------
(* The learning engine and the run of the orchestrator *)

SampleSize == 12

Min(a, b) == IF a <= b THEN a ELSE b

\* process: the router is asked only when one of the first lines has content
HasSamples(ls) == \E i \in 1..Min(SampleSize, Len(ls)) : ls[i] # ""

\* MetricsStore.increment as it would be if it added twice the amount
increment_Twice(m, key) == [m EXCEPT ![key] = @ + 2]

\* MetricsStore.increment(key=1)
increment(m, key) == [m EXCEPT ![key] = m[key] + 1]

\* example_cache.setdefault(id, text)
SetDefault(ex, id, text) ==
    IF id \in DOMAIN ex THEN ex
    ELSE [k \in (DOMAIN ex) \cup {id} |-> IF k = id THEN text ELSE ex[k]]

\* examples[id] = text
SetExample(ex, id, text) ==
    [k \in (DOMAIN ex) \cup {id} |-> IF k = id THEN text ELSE ex[k]]

\* The plan's deactivations as they would be without the pop of line 161
PopExamples_Keeps(ex, ids) == ex

\* examples.pop(id, None) for every id of ids
PopExamples(ex, ids) == [k \in (DOMAIN ex) \ ids |-> ex[k]]

\* _detect_conflicts as it would be without the fullmatch test of line 128
RECURSIVE ConflictsFrom_NoFullMatch(_, _, _, _)
ConflictsFrom_NoFullMatch(regex, templates, ex, i) ==
    IF i > Len(templates) THEN <<>>
    ELSE LET record == templates[i]
             rest == ConflictsFrom_NoFullMatch(regex, templates, ex, i + 1)
         IN  IF record.is_active /\ record.template_id \in DOMAIN ex
             THEN <<record.template_id>> \o rest
             ELSE rest

\* _detect_conflicts as it would be if the loop ended at the first conflict
RECURSIVE ConflictsFrom_FirstOnly(_, _, _, _)
ConflictsFrom_FirstOnly(regex, templates, ex, i) ==
    IF i > Len(templates) THEN <<>>
    ELSE LET record == templates[i]
         IN  IF /\ record.is_active
                /\ record.template_id \in DOMAIN ex
                /\ FullMatch(regex, ex[record.template_id])
             THEN <<record.template_id>>
             ELSE ConflictsFrom_FirstOnly(regex, templates, ex, i + 1)

\* _detect_conflicts, from position i of the mapping on: the ids of the
\* records reported, in the order of the mapping
RECURSIVE ConflictsFrom(_, _, _, _)
ConflictsFrom(regex, templates, ex, i) ==
    IF i > Len(templates) THEN <<>>
    ELSE LET record == templates[i]
             rest == ConflictsFrom(regex, templates, ex, i + 1)
         IN  IF /\ record.is_active
                /\ record.template_id \in DOMAIN ex
                /\ FullMatch(regex, ex[record.template_id])
             THEN <<record.template_id>> \o rest
             ELSE rest

_detect_conflicts(regex, lib, ex) ==
    IF ~Compiles(regex) THEN <<>>
    ELSE ConflictsFrom(regex, lib.templates, ex, 1)

\* f"task-{n}"
TaskId(n) == <<"t", "a", "s", "k", "-">> \o ToDigits(n)

\* The InteractionService: its _queue and its _counter
Service(queue, n) == [queue |-> queue, counter |-> n]

\* InteractionService.enqueue: the service after the call
enqueue(svc, description, payload) ==
    [queue |-> Append(svc.queue,
                      [task_id |-> TaskId(svc.counter), description |-> description,
                       payload |-> payload, status |-> "pending", history |-> <<>>]),
     counter |-> svc.counter + 1]

\* for template_id in replaced_ids: library.deactivate(template_id)
RECURSIVE DeactivateAll(_, _)
DeactivateAll(lib, ids) ==
    IF ids = {} THEN lib
    ELSE LET id == CHOOSE x \in ids : TRUE
         IN  DeactivateAll(deactivate(lib, id), ids \ {id})

\* match_all, from line i on: the rows so far, the library (its matcher cache
\* may grow) and whether a match call raised
RECURSIVE MatchAllFrom(_, _, _, _)
MatchAllFrom(lib, ls, i, acc) ==
    IF i > Len(ls) THEN [rows |-> acc, lib |-> lib, raised |-> FALSE]
    ELSE LET m == match(lib, ls[i])
             l2 == AfterMatch(lib, ls[i])
         IN  IF m.raised THEN [rows |-> acc, lib |-> l2, raised |-> TRUE]
             ELSE MatchAllFrom(l2, ls, i + 1,
                      Append(acc, [line_number |-> i,
                                   template_id |-> IF m.hit = 0 THEN NoId
                                                   ELSE lib.templates[m.hit].template_id]))

match_all(lib, ls) == MatchAllFrom(lib, ls, 1, <<>>)

\* An id the adjudicator may list that names no record
UnknownId == <<"s", "-", "9">>

NoPlan == [decision |-> "none", has_regex |-> FALSE, new_regex |-> BadRegex,
           replaced_ids |-> {}]

\* The adjudicator's answers: a decision (one unsupported), a new_regex that
\* may be missing or blank, and for replace_conflicting the ids to replace:
\* ids of the store, an id that names no record, or the id that names no
\* record yet and is the next one allocate_id gives
Plans(lib) ==
    { [decision |-> "replace_conflicting", has_regex |-> TRUE, new_regex |-> r,
       replaced_ids |-> ids] :
        r \in Regexes,
        ids \in SUBSET (TemplateIds(lib.templates) \cup {UnknownId})
                 \cup {{AllocatedId(lib)}} }
    \cup
    { [decision |-> d, has_regex |-> TRUE, new_regex |-> r, replaced_ids |-> {}] :
        d \in {"refine_candidate", "merge"}, r \in Regexes }
    \cup
    { [decision |-> d, has_regex |-> FALSE, new_regex |-> BadRegex, replaced_ids |-> {}] :
        d \in {"replace_conflicting", "refine_candidate", "merge"} }

\* Persisted documents a run may find: none, one active record, one inactive
\* record, two active records that overlap, a record whose regex no longer
\* compiles, a text that is not JSON
RunFiles ==
    LET id1 == SourceId \o <<"-">> \o Format04d(1)
        id2 == SourceId \o <<"-">> \o Format04d(2)
        rec(id, S, act) == [template_id |-> id, regex |-> Rx(S), is_active |-> act]
    IN  { NoFile,
          [exists |-> TRUE, parses |-> TRUE, templates |-> <<rec(id1, {"a"}, TRUE)>>],
          [exists |-> TRUE, parses |-> TRUE, templates |-> <<rec(id1, {"a", "b"}, FALSE)>>],
          [exists |-> TRUE, parses |-> TRUE, templates |-> <<rec(id1, {"a"}, TRUE), rec(id2, {"a", "b"}, TRUE)>>],
          [exists |-> TRUE, parses |-> TRUE,
           templates |-> <<[template_id |-> id1, regex |-> BadRegex, is_active |-> TRUE]>>],
          [exists |-> TRUE, parses |-> FALSE, templates |-> <<>>] }

\* Catalog documents an orchestrator may find: none, one that holds another
\* source, one whose text is not JSON
RunCatalogs ==
    { NoCatalog,
      [exists |-> TRUE, parses |-> TRUE, entries |-> {OtherSource}],
      [exists |-> TRUE, parses |-> FALSE, entries |-> {}] }

RECURSIVE SeqsUpTo(_, _)
SeqsUpTo(S, n) ==
    IF n = 0 THEN {<<>>}
    ELSE LET shorter == SeqsUpTo(S, n - 1)
         IN  shorter \cup {Append(q, x) : q \in shorter, x \in S}

Init ==
    /\ file \in RunFiles
    /\ library = EmptyLibrary
    /\ ret = NoRet
    /\ lines \in SeqsUpTo(Canon, MaxLines)
    /\ idx = 0
    /\ pc = "new"
    /\ examples = <<>>
    /\ metrics = [processed_lines |-> 0, matched_lines |-> 0,
                  learned_templates |-> 0, escalations |-> 0]
    /\ tasks = <<>>
    /\ counter = 1
    /\ cand = BadRegex
    /\ conflicts = <<>>
    /\ plan = NoPlan
    /\ outcome = "none"
    /\ rows = <<>>
    /\ report = "none"
    /\ catalog \in {[path |-> doc, entries |-> {}] : doc \in RunCatalogs}
    /\ cached = FALSE

\* An exception of class exc leaves process: the run is over, nothing is
\* emitted. exc is "AgentError" (agents/base_agent.py), "re.error" or
\* "JSONDecodeError".
Abort(exc) == pc' = exc

Aborted == pc \in {"AgentError", "re.error", "JSONDecodeError"}

\* LogParsingOrchestrator.__init__, line 58: the catalog is constructed, and
\* loaded when its document exists
Construct ==
    /\ pc = "new"
    /\ LET r == NewCatalog(catalog.path)
       IN  IF r.raised THEN Abort("JSONDecodeError") /\ UNCHANGED catalog
           ELSE pc' = "start" /\ catalog' = [catalog EXCEPT !.entries = r.entries]
    /\ UNCHANGED <<cached, file, library, ret, lines, idx, examples, metrics, tasks, counter,
                   cand, conflicts, plan, outcome, rows, report>>

\* process, lines 82-90: router.identify, then the source is registered
Route ==
    /\ pc = "start"
    /\ \/ /\ pc' = "open"
          /\ catalog' = [catalog EXCEPT !.entries = register(@, SourceId)]
       \/ HasSamples(lines) /\ Abort("AgentError") /\ UNCHANGED catalog
    /\ UNCHANGED <<cached, file, library, ret, lines, idx, examples, metrics, tasks, counter,
                   cand, conflicts, plan, outcome, rows, report>>

\* process, line 92: template_store.library(source_id), which constructs the
\* library unless the store holds it already
OpenLibrary ==
    /\ pc = "open"
    /\ UNCHANGED catalog
    /\ IF cached
       THEN pc' = "match" /\ UNCHANGED <<library, cached>>
       ELSE LET r == NewLibrary(file)
            IN  IF r.raised
                THEN /\ Abort(IF file.parses THEN "re.error" ELSE "JSONDecodeError")
                     /\ UNCHANGED <<library, cached>>
                ELSE pc' = "match" /\ library' = r.lib /\ cached' = TRUE
    /\ UNCHANGED <<file, ret, lines, idx, examples, metrics, tasks, counter,
                   cand, conflicts, plan, outcome, rows, report>>

\* process, lines 97-104: the next line is counted and matched
NextLine ==
    /\ pc = "match"
    /\ UNCHANGED <<catalog, cached>>
    /\ idx < Len(lines)
    /\ idx' = idx + 1
    /\ LET text == lines[idx + 1]
           m == match(library, text)
           counted == increment(metrics, "processed_lines")
       IN  /\ library' = AfterMatch(library, text)
           /\ IF m.raised
              THEN Abort("re.error") /\ metrics' = counted /\ UNCHANGED <<examples, outcome>>
              ELSE IF m.hit # 0
              THEN /\ examples' = SetDefault(examples, library.templates[m.hit].template_id, text)
                   /\ metrics' = increment(counted, "matched_lines")
                   /\ outcome' = "matched"
                   /\ pc' = "match"
              ELSE /\ metrics' = counted
                   /\ pc' = "derive"
                   /\ UNCHANGED <<examples, outcome>>
    /\ UNCHANGED <<file, ret, lines, tasks, counter, cand, conflicts, plan, rows, report>>

\* process_line returns: its locals are gone, phase 1 goes to the next line
Return(status) ==
    /\ outcome' = status
    /\ pc' = "match"
    /\ cand' = BadRegex
    /\ conflicts' = <<>>
    /\ plan' = NoPlan
    /\ report' = "none"

\* _escalate as it would be without the enqueue of lines 184-192
Escalated_NoTask(payload, reason) ==
    /\ metrics' = increment(metrics, "escalations")
    /\ tasks' = tasks
    /\ counter' = counter
    /\ Return("escalated")

\* _escalate: one more escalation, one task carrying the plan
Escalated(payload, reason) ==
    /\ metrics' = increment(metrics, "escalations")
    /\ LET svc == enqueue(Service(tasks, counter), reason, payload)
       IN  tasks' = svc.queue /\ counter' = svc.counter
    /\ Return("escalated")

\* process_line, line 55: template_agent.derive. An empty canonical text raises
\* AgentError before any request; nothing catches an AgentError here.
Derive ==
    /\ pc = "derive"
    /\ UNCHANGED <<catalog, cached>>
    /\ \/ Abort("AgentError") /\ UNCHANGED cand
       \/ /\ lines[idx] # ""
          /\ \E regex \in Regexes : cand' = regex
          /\ pc' = "review"
    /\ UNCHANGED <<file, library, ret, lines, idx, examples, metrics, tasks, counter,
                   conflicts, plan, outcome, rows, report>>

\* The first review as it would be if line 57 did not test the verdict
Review_VerdictIgnored ==
    /\ pc = "review"
    /\ UNCHANGED <<catalog, cached>>
    /\ \/ Abort("AgentError") /\ UNCHANGED report
       \/ report' = "approved" /\ pc' = "detect"
       \/ report' = "rejected" /\ pc' = "detect"
    /\ UNCHANGED <<file, library, ret, lines, idx, examples, metrics, tasks, counter,
                   cand, conflicts, plan, outcome, rows>>

\* process_line, lines 56-57: the first review
Review ==
    /\ pc = "review"
    /\ UNCHANGED <<catalog, cached>>
    /\ \/ Abort("AgentError") /\ UNCHANGED report
       \/ report' = "approved" /\ pc' = "detect"
       \/ report' = "rejected" /\ pc' = "repair"
    /\ UNCHANGED <<file, library, ret, lines, idx, examples, metrics, tasks, counter,
                   cand, conflicts, plan, outcome, rows>>

\* The handler of lines 66-68 as it would be without the increment of line 67
RepairFailed_Uncounted ==
    /\ metrics' = metrics
    /\ Return("repair_failed")
    /\ UNCHANGED <<tasks, counter>>

\* process_line, lines 66-68: refine raised AgentError
RepairFailed ==
    /\ metrics' = increment(metrics, "escalations")
    /\ Return("repair_failed")
    /\ UNCHANGED <<tasks, counter>>

\* RepairAgent.refine, lines 30-38: the follow-up request with the feedback
Repair ==
    /\ pc = "repair"
    /\ UNCHANGED <<catalog, cached>>
    /\ \/ \E regex \in Regexes :
            /\ cand' = regex
            /\ pc' = "review2"
            /\ UNCHANGED <<metrics, tasks, counter, conflicts, plan, outcome, report>>
       \/ RepairFailed                 \* the answer carries no regex
       \/ /\ pc' = "repair_retry"      \* follow_up raised AgentError
          /\ UNCHANGED <<metrics, tasks, counter, cand, conflicts, plan, outcome, report>>
    /\ UNCHANGED <<file, library, ret, lines, idx, examples, rows>>

\* RepairAgent.retry_from_error: a second follow-up request
RepairRetry ==
    /\ pc = "repair_retry"
    /\ UNCHANGED <<catalog, cached>>
    /\ \/ \E regex \in Regexes :
            /\ cand' = regex
            /\ pc' = "review2"
            /\ UNCHANGED <<metrics, tasks, counter, conflicts, plan, outcome, report>>
       \/ RepairFailed                 \* AgentError, or no regex in the answer
    /\ UNCHANGED <<file, library, ret, lines, idx, examples, rows>>

\* The second review as it would be if lines 74-76 did not count the rejection
Review2_RejectUncounted ==
    /\ pc = "review2"
    /\ UNCHANGED <<catalog, cached>>
    /\ \/ Abort("AgentError") /\ UNCHANGED <<metrics, cand, conflicts, plan, outcome, report>>
       \/ /\ report' = "approved"
          /\ pc' = "detect"
          /\ UNCHANGED <<metrics, cand, conflicts, plan, outcome>>
       \/ metrics' = metrics /\ Return("rejected")
    /\ UNCHANGED <<file, library, ret, lines, idx, examples, tasks, counter, rows>>

\* process_line, lines 69-76: the review of the refined regex
Review2 ==
    /\ pc = "review2"
    /\ UNCHANGED <<catalog, cached>>
    /\ \/ Abort("AgentError") /\ UNCHANGED <<metrics, cand, conflicts, plan, outcome, report>>
       \/ /\ report' = "approved"
          /\ pc' = "detect"
          /\ UNCHANGED <<metrics, cand, conflicts, plan, outcome>>
       \/ metrics' = increment(metrics, "escalations") /\ Return("rejected")
    /\ UNCHANGED <<file, library, ret, lines, idx, examples, tasks, counter, rows>>

\* process_line, lines 84-85: the conflict check of the approved candidate
Detect ==
    /\ pc = "detect"
    /\ UNCHANGED <<catalog, cached>>
    /\ conflicts' = _detect_conflicts(cand, library, examples)
    /\ pc' = IF conflicts' = <<>> THEN "store" ELSE "resolve"
    /\ UNCHANGED <<file, library, ret, lines, idx, examples, metrics, tasks, counter,
                   cand, plan, outcome, rows, report>>

\* library.add(candidate) and what follows it (lines 86-89, 162-165, 168-171):
\* a re.error of add leaves process; else the line becomes the example (the
\* setdefault of process, line 112, then finds the key set)
AddCandidate(lib, ex, status) ==
    LET record == NewRecord(cand)
    IN  /\ library' = add(lib, record)
        /\ IF AddRaises(lib, record)
           THEN /\ Abort("re.error")
                /\ examples' = ex
                /\ UNCHANGED <<metrics, cand, conflicts, plan, outcome, report>>
           ELSE /\ examples' = SetExample(ex, AddId(lib, record), lines[idx])
                /\ metrics' = increment(metrics, "learned_templates")
                /\ Return(status)

\* process_line, lines 85-89: no conflict
Store ==
    /\ pc = "store"
    /\ UNCHANGED <<catalog, cached>>
    /\ AddCandidate(library, examples, "stored")
    /\ UNCHANGED <<file, ret, lines, idx, tasks, counter, rows>>

\* process_line, lines 91-108, UpdateAgent.resolve_conflict and
\* _apply_conflict_plan, lines 142-148: a failed adjudication enqueues a task
\* in resolve_conflict and another in _escalate; a plan without new_regex is
\* escalated; else the plan's regex replaces the candidate's
Resolve ==
    /\ pc = "resolve"
    /\ UNCHANGED <<catalog, cached>>
    /\ \/ /\ metrics' = increment(metrics, "escalations")
          /\ LET svc == enqueue(enqueue(Service(tasks, counter),
                                        "Conflict resolution failed (invalid JSON)", NoPlan),
                                "conflict resolution error", NoPlan)
             IN  tasks' = svc.queue /\ counter' = svc.counter
          /\ Return("escalated")
       \/ \E p \in Plans(library) :
            IF ~p.has_regex
            THEN Escalated(p, "missing new_regex in conflict plan")
            ELSE /\ plan' = p
                 /\ cand' = p.new_regex
                 /\ pc' = "review3"
                 /\ UNCHANGED <<metrics, tasks, counter, conflicts, outcome, report>>
    /\ UNCHANGED <<file, library, ret, lines, idx, examples, rows>>

\* _apply_conflict_plan, lines 150-153: the review of the plan's regex
Review3 ==
    /\ pc = "review3"
    /\ UNCHANGED <<catalog, cached>>
    /\ \/ /\ Abort("AgentError")
          /\ UNCHANGED <<metrics, tasks, counter, cand, conflicts, plan, outcome, report>>
       \/ Escalated(plan, "refined regex rejected by validator")
       \/ /\ report' = "approved"
          /\ pc' = "apply"
          /\ UNCHANGED <<metrics, tasks, counter, cand, conflicts, plan, outcome>>
    /\ UNCHANGED <<file, library, ret, lines, idx, examples, rows>>

\* _apply_conflict_plan as it would be if refine_candidate deactivated the
\* conflicting templates as replace_conflicting does
Decide_RefineDeactivates ==
    /\ pc = "apply"
    /\ UNCHANGED <<catalog, cached>>
    /\ IF plan.decision = "replace_conflicting"
       THEN /\ AddCandidate(DeactivateAll(library, plan.replaced_ids),
                            PopExamples(examples, plan.replaced_ids), "replaced")
            /\ UNCHANGED <<tasks, counter>>
       ELSE IF plan.decision = "refine_candidate"
       THEN /\ AddCandidate(DeactivateAll(library, {conflicts[k] : k \in 1..Len(conflicts)}),
                            examples, "refined")
            /\ UNCHANGED <<tasks, counter>>
       ELSE /\ Escalated(plan, "unsupported decision")
            /\ UNCHANGED <<library, examples>>
    /\ UNCHANGED <<file, ret, lines, idx, rows>>

\* _apply_conflict_plan, lines 155-174: the decision is applied
Decide ==
    /\ pc = "apply"
    /\ UNCHANGED <<catalog, cached>>
    /\ IF plan.decision = "replace_conflicting"
       THEN /\ AddCandidate(DeactivateAll(library, plan.replaced_ids),
                            PopExamples(examples, plan.replaced_ids), "replaced")
            /\ UNCHANGED <<tasks, counter>>
       ELSE IF plan.decision = "refine_candidate"
       THEN /\ AddCandidate(library, examples, "refined")
            /\ UNCHANGED <<tasks, counter>>
       ELSE /\ Escalated(plan, "unsupported decision")
            /\ UNCHANGED <<library, examples>>
    /\ UNCHANGED <<file, ret, lines, idx, rows>>

\* process, lines 121-127: the report counts the lines of the input and reads
\* the two other numbers from the counters of the MetricsStore
ParseReport(ls, m) ==
    [op |-> "process", processed_lines |-> Len(ls),
     matched_lines |-> m.matched_lines, learned_templates |-> m.learned_templates]

\* process as it would be if the final pass could start before the loop of
\* phase 1 has taken every line
Phase2_Early ==
    /\ pc = "match"
    /\ LET r == match_all(library, lines)
       IN  /\ library' = r.lib
           /\ IF r.raised
              THEN Abort("re.error") /\ UNCHANGED <<rows, file, catalog>>
              ELSE /\ rows' = r.rows
                   /\ file' = save(r.lib)
                   /\ catalog' = [catalog EXCEPT !.path = catalog_save(catalog.entries)]
                   /\ pc' = "done"
    /\ ret' = IF pc' = "done" THEN ParseReport(lines, metrics) ELSE ret
    /\ UNCHANGED <<lines, idx, examples, metrics, tasks, counter, cand, conflicts,
                   plan, outcome, report, cached>>

\* process, lines 115-127: phase 2, the outputs, save_all and catalog.save
Phase2 ==
    /\ pc = "match"
    /\ idx = Len(lines)
    /\ LET r == match_all(library, lines)
       IN  /\ library' = r.lib
           /\ IF r.raised
              THEN Abort("re.error") /\ UNCHANGED <<rows, file, catalog>>
              ELSE /\ rows' = r.rows
                   /\ file' = save(r.lib)
                   /\ catalog' = [catalog EXCEPT !.path = catalog_save(catalog.entries)]
                   /\ pc' = "done"
    /\ ret' = IF pc' = "done" THEN ParseReport(lines, metrics) ELSE ret
    /\ UNCHANGED <<lines, idx, examples, metrics, tasks, counter, cand, conflicts,
                   plan, outcome, report, cached>>

Next ==
    \/ Construct
    \/ Route
    \/ OpenLibrary
    \/ NextLine
    \/ Derive
    \/ Review
    \/ Repair
    \/ RepairRetry
    \/ Review2
    \/ Detect
    \/ Store
    \/ Resolve
    \/ Review3
    \/ Decide
    \/ Phase2

Spec == Init /\ [][Next]_vars

\* The run is sequential code: a step that can be taken is taken
FairSpec == Spec /\ WF_vars(Next)

-----------------------------------------------------------------------------
(* Several calls of process on one orchestrator *)

\* The orchestrator is new, and its state directory is empty
RerunInit ==
    /\ Init
    /\ file = NoFile
    /\ catalog.path = NoCatalog
    /\ Len(lines) <= MaxProcessed

\* process is called again on the same orchestrator, after it returned or
\* raised: the input and the locals of process are new, the catalog, the
\* template store, the MetricsStore and the InteractionService are those of
\* the orchestrator (orchestrator.py:58-61), and no document is read again
ProcessAgain ==
    /\ pc \in {"done", "AgentError", "re.error"}
    /\ \E ls \in SeqsUpTo(Canon, MaxLines) :
          /\ metrics.processed_lines + Len(ls) <= MaxProcessed
          /\ lines' = ls
    /\ pc' = "start"
    /\ idx' = 0
    /\ examples' = <<>>
    /\ rows' = <<>>
    /\ outcome' = "none"
    /\ cand' = BadRegex
    /\ conflicts' = <<>>
    /\ plan' = NoPlan
    /\ report' = "none"
    /\ ret' = NoRet
    /\ UNCHANGED <<file, library, metrics, tasks, counter, catalog, cached>>

RerunNext == Next \/ ProcessAgain

RerunSpec == RerunInit /\ [][RerunNext]_vars

-----------------------------------------------------------------------------
(* The escalation queue on its own: any interleaving of its operations *)

\* Position of the first task of the queue with that id, 0 if none
TaskIndex(queue, task_id) ==
    IF \E i \in 1..Len(queue) : queue[i].task_id = task_id
    THEN CHOOSE i \in 1..Len(queue) :
            /\ queue[i].task_id = task_id
            /\ \A j \in 1..(i - 1) : queue[j].task_id # task_id
    ELSE 0

\* InteractionService.resolve as it would be if a resolved task left the queue
resolve_Removes(queue, task_id, note) ==
    LET i == TaskIndex(queue, task_id)
    IN  IF i = 0 THEN queue
        ELSE SubSeq(queue, 1, i - 1) \o SubSeq(queue, i + 1, Len(queue))

\* InteractionService.resolve: the queue after the call
resolve(queue, task_id, note) ==
    LET i == TaskIndex(queue, task_id)
    IN  IF i = 0 THEN queue
        ELSE [queue EXCEPT ![i].status = "resolved",
                           ![i].history = Append(queue[i].history, note)]

\* InteractionService.next_pending: the position of the task returned, 0 for None
next_pending(queue) ==
    IF \E i \in 1..Len(queue) : queue[i].status = "pending"
    THEN CHOOSE i \in 1..Len(queue) :
            /\ queue[i].status = "pending"
            /\ \A j \in 1..(i - 1) : queue[j].status # "pending"
    ELSE 0

\* InteractionService.list_tasks: a list of the tasks of the queue, in order
list_tasks(queue) == queue

\* Ids an operator may pass to resolve: the ids enqueue gives, one of them
\* written with a leading zero, and an id no task has
ResolveIds ==
    {TaskId(n) : n \in 1..MaxTasks}
        \cup {<<"t", "a", "s", "k", "-", "0", "1">>, <<"t", "a", "s", "k", "-", "x">>}

\* Descriptions of the tasks the pipeline enqueues
Reasons == {"conflict resolution error", "unsupported decision"}

QueueInit ==
    /\ file = NoFile
    /\ library = EmptyLibrary
    /\ ret = NoRet
    /\ IdlePipeline

QueueRet(op, id, hit, listed) ==
    [op |-> op, raised |-> FALSE, id |-> id, hit |-> hit, text |-> "", listed |-> listed]

QueueFrame ==
    UNCHANGED <<file, library, lines, idx, pc, examples, metrics, cand, conflicts,
                plan, outcome, rows, report, catalog, cached>>

QEnqueue ==
    \E description \in Reasons :
        LET svc == enqueue(Service(tasks, counter), description, NoPlan)
        IN  /\ Len(tasks) < MaxTasks
            /\ tasks' = svc.queue
            /\ counter' = svc.counter
            /\ ret' = QueueRet("enqueue", TaskId(counter), Len(svc.queue), <<>>)
            /\ QueueFrame

QListTasks ==
    /\ ret' = QueueRet("list_tasks", NoId, 0, list_tasks(tasks))
    /\ UNCHANGED <<tasks, counter>>
    /\ QueueFrame

QResolve ==
    \E task_id \in ResolveIds :
        LET i == TaskIndex(tasks, task_id)
        IN  /\ i # 0 => Len(tasks[i].history) < MaxHistory
            /\ tasks' = resolve(tasks, task_id, "note")
            /\ ret' = QueueRet("resolve", task_id, 0, <<>>)
            /\ UNCHANGED counter
            /\ QueueFrame

QNextPending ==
    /\ ret' = QueueRet("next_pending",
                       IF next_pending(tasks) = 0 THEN NoId
                       ELSE tasks[next_pending(tasks)].task_id,
                       next_pending(tasks), <<>>)
    /\ UNCHANGED <<tasks, counter>>
    /\ QueueFrame

QueueNext ==
    \/ QEnqueue
    \/ QListTasks
    \/ QResolve
    \/ QNextPending

QueueSpec == QueueInit /\ [][QueueNext]_vars

-----------------------------------------------------------------------------
(* One structured collaborator call: BaseAgent._call_json *)

\* What client.chat returns, by what _request and _extract_json make of it:
\* blank (empty or white space), or a text that holds a value, possibly inside
\* a ``` fence, possibly with prose before it. The values: a JSON object with
\* members, the empty object, an array with elements, the empty array, a
\* number, and text that is no JSON at all.
Values == {"object", "empty_object", "list", "empty_list", "number", "garbage"}

BlankResponse == [blank |-> TRUE, fence |-> FALSE, prose |-> FALSE, value |-> "garbage"]

Responses ==
    {BlankResponse} \cup
    [blank : {FALSE}, fence : BOOLEAN, prose : BOOLEAN, value : Values]

\* No response received yet
NoResponse == [blank |-> FALSE, fence |-> FALSE, prose |-> FALSE, value |-> "none"]

\* _extract_json: a fence at the start is cut; json.loads gives the value when
\* the text is that value alone; else the search for {.*} finds an object,
\* and nothing else; "None" when nothing parses
_extract_json(response) ==
    IF ~response.prose
    THEN IF response.value = "garbage" THEN "None" ELSE response.value
    ELSE IF response.value \in {"object", "empty_object"} THEN response.value
         ELSE "None"

\* bool(data) of lines 85 and 97
Truthy(data) == data \in {"object", "list", "number"}

\* _request raises AgentError("empty response from LLM")
RequestRaises(response) == response.blank

\* BaseAgent._error_agent is set: the orchestrator registers one when constructed
ErrorAgentRegistered == TRUE

\* The messages of the call, and the error_description of the calling agent
Conversation == <<"system", "user">>

ErrorDescription == "Validator must return JSON verdict"

\* The state of a call: the requests sent, the two responses, the data returned
CallRet(sent, first, second, data) ==
    [op |-> "_call_json", raised |-> FALSE, id |-> NoId, hit |-> 0, text |-> "",
     sent |-> sent, first |-> first, second |-> second, data |-> data]

CallInit ==
    /\ file = NoFile
    /\ library = EmptyLibrary
    /\ ret = CallRet(<<>>, NoResponse, NoResponse, "None")
    /\ lines = <<>>
    /\ idx = 0
    /\ pc = "call"
    /\ examples = <<>>
    /\ metrics = [processed_lines |-> 0, matched_lines |-> 0,
                  learned_templates |-> 0, escalations |-> 0]
    /\ tasks = <<>>
    /\ counter = 1
    /\ cand = BadRegex
    /\ conflicts = <<>>
    /\ plan = [decision |-> "none", has_regex |-> FALSE, new_regex |-> BadRegex,
               replaced_ids |-> {}]
    /\ outcome = "none"
    /\ rows = <<>>
    /\ report = "none"
    /\ catalog = IdleCatalog
    /\ cached = FALSE

CallFrame ==
    UNCHANGED <<file, library, lines, idx, examples, metrics, tasks, counter, cand,
                conflicts, plan, outcome, rows, report, catalog, cached>>

\* _call_json, lines 82-95: the request of the agent, and what follows when
\* its response gives no data
CallRequest ==
    /\ pc = "call"
    /\ \E response \in Responses :
          LET request == [to |-> "collaborator", messages |-> Conversation,
                          last_response |-> NoResponse, error_description |-> ""]
              data == _extract_json(response)
          IN  IF RequestRaises(response)
              THEN /\ pc' = "AgentError"
                   /\ ret' = CallRet(<<request>>, response, NoResponse, "None")
              ELSE IF Truthy(data)
              THEN /\ pc' = "returned"
                   /\ ret' = CallRet(<<request>>, response, NoResponse, data)
              ELSE /\ pc' = IF ErrorAgentRegistered THEN "call_repair" ELSE "AgentError"
                   /\ ret' = CallRet(<<request>>, response, NoResponse, "None")
    /\ CallFrame

\* _attempt_repair and ErrorAgent.repair, then _call_json, lines 94-100
CallRepair ==
    /\ pc = "call_repair"
    /\ \E response \in Responses :
          LET request == [to |-> "error_collaborator", messages |-> ret.sent[1].messages,
                          last_response |-> ret.first,
                          error_description |-> ErrorDescription]
              data == _extract_json(response)
              sent == Append(ret.sent, request)
          IN  IF RequestRaises(response) \/ ~Truthy(data)
              THEN /\ pc' = "AgentError"
                   /\ ret' = CallRet(sent, ret.first, response, "None")
              ELSE /\ pc' = "returned"
                   /\ ret' = CallRet(sent, ret.first, response, data)
    /\ CallFrame

CallNext ==
    \/ CallRequest
    \/ CallRepair

CallSpec == CallInit /\ [][CallNext]_vars

-----------------------------------------------------------------------------
(* Claims *)

LearningPcs == {"derive", "review", "repair", "repair_retry", "review2",
                "detect", "store", "resolve", "review3", "apply"}

\* A step of the learning of a line does not end the run with an AgentError,
\* and a line that ends as repair_failed or escalated is counted
C1_Step ==
    pc \in LearningPcs =>
        /\ pc' # "AgentError"
        /\ (pc' = "match" /\ outcome' \in {"repair_failed", "escalated"}
              => metrics'.escalations = metrics.escalations + 1)

\* C1: a collaborator failure while a line is learned never ends the run with
\* an AgentError: the line ends (phase 1 goes on with the next line), and
\* when it ends as repair_failed or escalated the escalations counter has
\* grown by one.
C1_FailureIsEscalated == [][C1_Step]_vars

\* The positions of the active records whose pattern fully matches text
ActiveMatches(templates, text) ==
    {i \in 1..Len(templates) :
        templates[i].is_active /\ Compiles(templates[i].regex)
        /\ FullMatch(templates[i].regex, text)}

\* The emitted rows are the labeling of the input by the final store
RowsLabelInput ==
    /\ Len(rows) = Len(lines)
    /\ \A i \in 1..Len(rows) :
        /\ rows[i].line_number = i
        /\ rows[i].template_id = NoId <=> ActiveMatches(library.templates, lines[i]) = {}

\* C2: once phase 1 has started, whatever the collaborators answer, the run
\* finishes: phase 2 has run and one row per input line is emitted, numbered
\* in input order, with an empty template id exactly for the lines no active
\* template of the final store fully matches.
C2_RunEmitsAllRows ==
    (pc = "match" /\ idx = 0) ~> (pc = "done" /\ RowsLabelInput)

\* C3: when match returns, it returns the earliest-inserted record that is
\* active and whose pattern fully matches the text, and None when there is no
\* such record; so never an inactive record.
C3_MatchFirstActive ==
    (ret.op = "match" /\ ~ret.raised) =>
        LET hits == ActiveMatches(library.templates, ret.text)
        IN  IF hits = {} THEN ret.hit = 0
            ELSE ret.hit \in hits /\ \A i \in hits : ret.hit <= i

\* C3 witness: match returned the second record, the first one matches the
\* text too but is inactive
C3_Witness ==
    /\ ret.op = "match"
    /\ ret.hit = 2
    /\ ~library.templates[1].is_active
    /\ Compiles(library.templates[1].regex)
    /\ FullMatch(library.templates[1].regex, ret.text)

\* No active template's pattern fully matches the cached example of another
\* active template
NoOverlap(templates, ex) ==
    \A i, j \in 1..Len(templates) :
        (/\ i # j
         /\ templates[i].is_active
         /\ templates[j].is_active
         /\ templates[j].template_id \in DOMAIN ex
         /\ Compiles(templates[i].regex))
        => ~FullMatch(templates[i].regex, ex[templates[j].template_id])

\* C4: after the processing of any line of phase 1, no active template's
\* pattern fully matches the cached example of another active template
\* (stated for the runs that start without a persisted library, where every
\* template was added by the run itself).
C4_NoOverlapAfterLine ==
    (pc = "match" /\ ~file.exists) => NoOverlap(library.templates, examples)

\* C5: every template the conflict detector reports for the candidate is in
\* the store, active, and has a cached example the candidate fully matches.
C5_ReportedConflictsAreReal ==
    pc = "resolve" =>
        \A k \in 1..Len(conflicts) :
            LET i == IndexOf(library.templates, conflicts[k])
            IN  /\ i # 0
                /\ library.templates[i].is_active
                /\ conflicts[k] \in DOMAIN examples
                /\ Compiles(cand)
                /\ FullMatch(cand, examples[conflicts[k]])

\* C5 witness: the detector has reported two templates for the candidate
C5_Witness == pc = "resolve" /\ Len(conflicts) = 2

\* The positions of the active records with a cached example that regex
\* fully matches
ConflictPositions(regex, templates, ex) ==
    {i \in 1..Len(templates) :
        /\ templates[i].is_active
        /\ templates[i].template_id \in DOMAIN ex
        /\ FullMatch(regex, ex[templates[i].template_id])}

\* The detector's step: its result lists exactly those records, once each, in
\* the order of the mapping, or nothing for a regex that does not compile;
\* the store and the example cache are as before
C6_Step ==
    pc = "detect" =>
        LET expected == IF Compiles(cand)
                        THEN ConflictPositions(cand, library.templates, examples)
                        ELSE {}
        IN  /\ Len(conflicts') = Cardinality(expected)
            /\ {conflicts'[k] : k \in 1..Len(conflicts')}
                 = {library.templates[i].template_id : i \in expected}
            /\ \A k, m \in 1..Len(conflicts') :
                 k < m => IndexOf(library.templates, conflicts'[k])
                            < IndexOf(library.templates, conflicts'[m])
            /\ library' = library
            /\ examples' = examples

\* C6: for a candidate that compiles the detector returns exactly the active
\* records that have a cached example the candidate fully matches, in store
\* order; for one that does not compile it returns nothing; it changes
\* neither the store nor the example cache.
C6_DetectorExact == [][C6_Step]_vars

\* C6 witness: the detector has reported the second of two active records
\* with examples and not the first, which the candidate does not match
C6_Witness ==
    /\ pc = "resolve"
    /\ Len(library.templates) >= 2
    /\ conflicts = <<library.templates[2].template_id>>
    /\ library.templates[1].is_active
    /\ library.templates[1].template_id \in DOMAIN examples

\* C7: when add raises for a regex that is not valid, the store is as before
\* the call: the record is not in the mapping and no matcher is cached for it.
C7_FailedAddLeavesStore ==
    (ret.op = "add" /\ ret.raised) =>
        /\ ret.id \notin TemplateIds(library.templates)
        /\ ret.id \notin DOMAIN library.compiled

\* The store is asked to add an approved candidate that does not compile: the
\* line ends as a rejected candidate and phase 1 goes on
C8_Step ==
    (pc = "store" /\ ~Compiles(cand)) =>
        pc' = "match" /\ outcome' = "rejected"

\* C8: when the reviewer has approved a candidate whose text does not
\* compile, the line ends as a rejected candidate and the run continues: no
\* re.error leaves process_line.
C8_BadCandidateRejected == [][C8_Step]_vars

\* The numeric suffixes of the ids in the store
NumericSuffixes(templates) ==
    {IntOf(RSplitLast(templates[i].template_id)) :
        i \in {k \in 1..Len(templates) : IsNumeric(RSplitLast(templates[k].template_id))}}

Max(S) == CHOOSE x \in S : \A y \in S : y <= x

\* The sequence counter exceeds the numeric suffix of every id in the store
SequenceAboveSuffixes(lib) ==
    \A n \in NumericSuffixes(lib.templates) : n < lib.sequence

\* An add without id stores under an id no record has, as a new record; a
\* load leaves the counter at the largest numeric suffix plus one; and the
\* next id's suffix is the counter, above every suffix in the store
C9_Step ==
    /\ ret'.op = "add" =>
          /\ ret'.id \notin TemplateIds(library.templates)
          /\ Len(library'.templates) = Len(library.templates) + 1
          /\ library'.templates[Len(library'.templates)].template_id = ret'.id
    /\ (ret'.op = "load" /\ ~ret'.raised) =>
          library'.sequence = Max(NumericSuffixes(library'.templates) \cup {0}) + 1
    /\ SequenceAboveSuffixes(library')
    /\ IsNumeric(RSplitLast(AllocatedId(library')))
    /\ IntOf(RSplitLast(AllocatedId(library'))) = library'.sequence

\* C9: with add calls that carry no id, every assigned id differs from every
\* id already in the store (so the assigned ids are pairwise distinct); after
\* a save and a reload the sequence counter is the largest numeric suffix of
\* the loaded ids plus one, ids without a numeric suffix being skipped; so the
\* next allocated id's suffix exceeds every suffix in the store.
C9_IdsDistinctAndMonotonic == [][C9_Step]_vars

\* C9 witness: a reload of a saved store that holds an id without numeric
\* suffix and an allocated id has set the counter past the allocated one
C9_Witness ==
    /\ ret.op = "load"
    /\ ~ret.raised
    /\ Len(library.templates) = 2
    /\ ~IsNumeric(RSplitLast(library.templates[1].template_id))
    /\ library.templates[2].template_id = SourceId \o <<"-">> \o Format04d(1)
    /\ library.sequence = 2

\* C10: in every state of a library, whatever the interleaving of load,
\* allocate_id, add without id and add with a supplied id, the sequence
\* counter exceeds the numeric suffix of every id in the store and the id
\* allocate_id would return names no record.
C10_CounterAboveEveryId ==
    /\ SequenceAboveSuffixes(library)
    /\ AllocatedId(library) \notin TemplateIds(library.templates)

\* After the refinement request of a line no second one is sent, and the
\* review of the refined regex is followed by no further refinement or review
\* of a refinement
C11_Step ==
    /\ pc = "repair" => pc' # "repair_retry"
    /\ pc = "review2" => pc' \notin {"repair", "repair_retry", "review2"}

\* C11: while one line is processed, after the first review has rejected the
\* proposal, one refinement request at most is sent to the proposer (a
\* request that failed is not sent again), and it is followed by one review
\* of the refined regex.
C11_OneRefinementRequest == [][C11_Step]_vars

\* The refinement of a line ends with a collaborator error: the line ends as
\* repair_failed, one escalation more is counted, and store, example cache,
\* the other counters and the queue are as before
C12_Step ==
    (pc \in {"repair", "repair_retry"} /\ pc' \notin {"review2", "repair_retry"}) =>
        /\ pc' = "match"
        /\ outcome' = "repair_failed"
        /\ metrics' = [metrics EXCEPT !.escalations = metrics.escalations + 1]
        /\ library' = library
        /\ examples' = examples
        /\ idx' = idx

C13_Step ==
    (pc = "review2" /\ pc' = "match") =>
        /\ outcome' = "rejected"
        /\ metrics' = [metrics EXCEPT !.escalations = metrics.escalations + 1]
        /\ library' = library
        /\ examples' = examples

\* C13: when the reviewer rejects the proposal and then the regex returned by
\* the one repair, the line's outcome is rejected, the escalations counter
\* grows by exactly 1, the learned-templates counter is unchanged and the
\* store is unchanged (no new template, no active flag changed).
C13_RejectedTwice == [][C13_Step]_vars

\* C13 witness: a line has ended as rejected while the store held an active
\* template, which is still there, and nothing was learned in the run
C13_Witness ==
    /\ pc = "match"
    /\ outcome = "rejected"
    /\ metrics.escalations = 1
    /\ metrics.learned_templates = 0
    /\ Len(library.templates) = 1
    /\ library.templates[1].is_active

\* The example cache ex2 is ex with text put under id and nothing else changed
CacheWith(ex2, ex, id, text) ==
    /\ DOMAIN ex2 = (DOMAIN ex) \cup {id}
    /\ ex2[id] = text
    /\ \A k \in (DOMAIN ex) \ {id} : ex2[k] = ex[k]

\* The store step of a candidate without conflict: one record more, active,
\* under the id allocate_id gives, which no record had; the records before it
\* are as they were; the line is the new template's example; one template
\* more is counted as learned and the line ends as stored
C14_Step ==
    pc = "store" =>
        LET id == AllocatedId(library)
        IN  /\ id \notin TemplateIds(library.templates)
            /\ library'.templates =
                   Append(library.templates,
                          [template_id |-> id, regex |-> cand, is_active |-> TRUE])
            /\ CacheWith(examples', examples, id, lines[idx])
            /\ metrics' = [metrics EXCEPT !.learned_templates = metrics.learned_templates + 1]
            /\ outcome' = "stored"
            /\ pc' = "match"

\* C14: an approved candidate with an empty conflict set is stored as one new
\* active record under a freshly allocated id: the number of active templates
\* grows by exactly one, every other record (id, pattern, active flag) is
\* unchanged, the triggering line becomes the new template's example, the
\* learned-templates counter grows by 1 and the outcome is stored.
C14_StoredFrame == [][C14_Step]_vars

\* The step of _apply_conflict_plan in which the decision is applied, the
\* reviewer having approved the plan's regex
PlanApplied(decision) ==
    /\ pc = "apply"
    /\ plan.decision = decision

\* A replace_conflicting decision is applied: the listed ids are inactive and
\* out of the example cache, the plan's regex is stored as a new active
\* record with the line as its example, the records that were inactive are
\* as they were
C15_Step ==
    PlanApplied("replace_conflicting") =>
        LET before == library.templates
            after == library'.templates
            new == after[Len(after)]
        IN  /\ \A id \in plan.replaced_ids :
                  /\ id \notin DOMAIN examples'
                  /\ IndexOf(after, id) # 0 => ~after[IndexOf(after, id)].is_active
            /\ Len(after) = Len(before) + 1
            /\ new.regex = plan.new_regex
            /\ new.is_active
            /\ new.template_id \in DOMAIN examples'
            /\ examples'[new.template_id] = lines[idx]
            /\ \A i \in 1..Len(before) : ~before[i].is_active => after[i] = before[i]

\* C15: after a replace_conflicting resolution is applied, every id listed in
\* the decision's replaced ids is inactive and has no entry in the example
\* cache, the candidate with the decision's pattern text is stored and active
\* with the triggering line as its example, and every record that was
\* inactive before is unaffected.
C15_ReplaceApplied == [][C15_Step]_vars

\* A refine_candidate decision is applied: the store is as before with one
\* record more, active, holding the plan's regex under the id allocate_id
\* gives; the records the detector reported are active and have the example
\* they had
C16_Step ==
    PlanApplied("refine_candidate") =>
        LET before == library.templates
            after == library'.templates
        IN  /\ AllocatedId(library) \notin TemplateIds(before)
            /\ after = Append(before, [template_id |-> AllocatedId(library),
                                       regex |-> plan.new_regex,
                                       is_active |-> TRUE])
            /\ \A k \in 1..Len(conflicts) :
                  LET i == IndexOf(before, conflicts[k])
                  IN  /\ after[i] = before[i]
                      /\ after[i].is_active
                      /\ conflicts[k] \in DOMAIN examples'
                      /\ examples'[conflicts[k]] = examples[conflicts[k]]

\* C16: when the adjudicator answers refine_candidate with a pattern that
\* passes the extra validation, the store gains exactly one new active record
\* holding the decision's pattern under the next allocated id, and every
\* record that conflicted with the original candidate stays active with its
\* pattern, id and cached example unchanged.
C16_RefineFrame == [][C16_Step]_vars

\* C16 witness: a line has ended as refined; the template that conflicted is
\* active next to the new one and both have an example
C16_Witness ==
    /\ pc = "match"
    /\ outcome = "refined"
    /\ Len(library.templates) = 2
    /\ library.templates[1].is_active
    /\ library.templates[2].is_active
    /\ library.templates[1].template_id \in DOMAIN examples
    /\ library.templates[2].template_id \in DOMAIN examples

\* The effect of an escalation that carries payload: the line ends as
\* escalated, the queue has one task more, which carries the payload, and
\* store and example cache are as before
EscalatedWith(payload) ==
    /\ pc' = "match"
    /\ outcome' = "escalated"
    /\ Len(tasks') = Len(tasks) + 1
    /\ \A i \in 1..Len(tasks) : tasks'[i] = tasks[i]
    /\ tasks'[Len(tasks')].payload = payload
    /\ library' = library
    /\ examples' = examples

\* The payload of the task enqueued last, NoPlan for an empty queue
LastPayload(queue) ==
    IF Len(queue) = 0 THEN NoPlan ELSE queue[Len(queue)].payload

\* The adjudicator's answer is refused: it has no new_regex (the answer is
\* then the payload of the task enqueued), or the reviewer rejects its regex,
\* or the reviewer approves it and the decision is not a supported one
C17_Step ==
    /\ (pc = "resolve" /\ pc' = "match" /\ LastPayload(tasks') # NoPlan) =>
          /\ ~LastPayload(tasks').has_regex
          /\ EscalatedWith(LastPayload(tasks'))
    /\ (pc = "review3" /\ pc' = "match") => EscalatedWith(plan)
    /\ (/\ pc = "apply"
        /\ plan.decision \notin {"replace_conflicting", "refine_candidate"}) =>
          EscalatedWith(plan)

\* C17: if the adjudicator's decision omits the new pattern text, or its
\* pattern fails the extra validation pass, or its decision field is neither
\* replace_conflicting nor refine_candidate, then the outcome is escalated,
\* one escalation task carrying the decision payload is enqueued, and the
\* store and the example cache are unchanged: no template is stored and none
\* of the ids listed for replacement is deactivated.
C17_RefusedPlanEscalated == [][C17_Step]_vars

\* C17 witness: a replace_conflicting answer that lists the one template of
\* the store was refused by the reviewer: it is the payload of the one task,
\* and the template is still active with its example
C17_Witness ==
    /\ pc = "match"
    /\ outcome = "escalated"
    /\ Len(tasks) = 1
    /\ tasks[1].payload.decision = "replace_conflicting"
    /\ tasks[1].payload.has_regex
    /\ Len(library.templates) = 1
    /\ tasks[1].payload.replaced_ids = {library.templates[1].template_id}
    /\ library.templates[1].is_active
    /\ library.templates[1].template_id \in DOMAIN examples

ReviewPcs == {"review", "review2", "review3"}

\* A record is added to the store only by the store step or by the step that
\* applies a plan, it holds the candidate, and the verdict of the last review
\* call is approved; the store step and the applying step are entered only
\* after a review call that approved the candidate as it is then, and the
\* candidate does not change between that review and the add
C18_Step ==
    /\ (pc # "open" /\ Len(library'.templates) > Len(library.templates)) =>
          /\ pc \in {"store", "apply"}
          /\ report = "approved"
          /\ library'.templates[Len(library'.templates)].regex = cand
    /\ (pc' \in {"detect", "apply"} /\ pc' # pc) =>
          /\ pc \in ReviewPcs
          /\ report' = "approved"
          /\ cand' = cand
    /\ pc' = "store" => (pc = "detect" /\ report = "approved" /\ cand' = cand)
    /\ (pc \in {"detect", "resolve"} /\ report' # "none") => report' = report

\* C18: templates are stored only after passing review: every record added to
\* the store during a run holds a pattern text for which the reviewer returned
\* approved=true, for the triggering line, in the most recent review call of
\* that same line's processing; no path stores a pattern that was not
\* reviewed or whose last review rejected it.
C18_StoredOnlyApproved == [][C18_Step]_vars

\* C18 witness: a plan's regex, approved in the review of the plan, has been
\* stored in place of the template it replaces
C18_Witness ==
    /\ pc = "match"
    /\ outcome = "replaced"
    /\ Len(library.templates) = 2
    /\ ~library.templates[1].is_active
    /\ library.templates[2].is_active
    /\ Compiles(library.templates[2].regex)

\* The id match gives for text on the library lib, NoId for None
MatchedId(lib, text) ==
    LET m == match(lib, text)
    IN  IF m.hit = 0 THEN NoId ELSE lib.templates[m.hit].template_id

\* Phase 2 leaves the records, their order and the sequence counter as they
\* were, calls no collaborator (counters and queue are as before), and when
\* it is run again over the same lines on the library it left the rows are
\* the same and the records are again as before
C19_Step ==
    (pc = "match" /\ idx = Len(lines) /\ pc' # pc) =>
        /\ library'.templates = library.templates
        /\ library'.sequence = library.sequence
        /\ metrics' = metrics
        /\ tasks' = tasks
        /\ examples' = examples
        /\ pc' = "done" =>
              LET again == match_all(library', lines)
              IN  /\ ~again.raised
                  /\ again.rows = rows'
                  /\ again.lib.templates = library.templates
                  /\ again.lib.sequence = library.sequence

\* C19: phase-2 matching is pure: match_all makes no collaborator call and
\* leaves every record of the store (ids, patterns, active flags, insertion
\* order) and the sequence counter unchanged, so running it twice over the
\* same lines against the same final store yields identical results line by
\* line.
C19_Phase2Pure == [][C19_Step]_vars

\* C19 witness: phase 2 has run over three lines, of which one is labeled
\* with a template and one is not
C19_Witness ==
    /\ pc = "done"
    /\ Len(rows) = 3
    /\ rows[1].template_id # NoId
    /\ rows[2].template_id = NoId

\* C20: the emitted labeling is computed only after phase 1 has processed
\* every line, against the final store: for every line the emitted template
\* id is the result of match on the final store, so no emitted id names an
\* inactive template, and any two input lines with the same canonical text
\* carry the same emitted template id, whatever their positions.
C20_LabelsFromFinalStore ==
    /\ pc # "done" => rows = <<>>
    /\ pc = "done" =>
          /\ idx = Len(lines)
          /\ Len(rows) = Len(lines)
          /\ \A i \in 1..Len(rows) :
                /\ rows[i].line_number = i
                /\ ~match(library, lines[i]).raised
                /\ rows[i].template_id = MatchedId(library, lines[i])
                /\ rows[i].template_id # NoId =>
                      library.templates[IndexOf(library.templates, rows[i].template_id)].is_active
          /\ \A i, j \in 1..Len(rows) :
                lines[i] = lines[j] => rows[i].template_id = rows[j].template_id

\* C20 witness: the first and the third line have the same text; the template
\* learned for the first line was replaced while the second was learned, and
\* both lines are labeled with the template that replaced it
C20_Witness ==
    /\ pc = "done"
    /\ Len(lines) = 3
    /\ lines[1] = lines[3]
    /\ Len(library.templates) = 2
    /\ ~library.templates[1].is_active
    /\ FullMatch(library.templates[1].regex, lines[1])
    /\ rows[1].template_id = library.templates[2].template_id
    /\ rows[3].template_id = library.templates[2].template_id
    /\ metrics.learned_templates = 2

TaskIdsOf(queue) == {queue[i].task_id : i \in 1..Len(queue)}

\* A step of the queue: no task leaves it and the tasks keep their place, id,
\* description and payload; the ids are pairwise distinct; a status changes
\* only from pending to resolved, in a resolve call on that task's id; a
\* resolve call on an id no task has changes nothing; next_pending returns
\* the first task of the queue that is pending, None when there is none;
\* list_tasks returns the tasks in order
C21_Step ==
    /\ Len(tasks') >= Len(tasks)
    /\ \A i \in 1..Len(tasks) :
          /\ tasks'[i].task_id = tasks[i].task_id
          /\ tasks'[i].description = tasks[i].description
          /\ tasks'[i].payload = tasks[i].payload
          /\ tasks'[i].status # tasks[i].status =>
                /\ tasks[i].status = "pending"
                /\ tasks'[i].status = "resolved"
                /\ ret'.op = "resolve"
                /\ ret'.id = tasks[i].task_id
    /\ \A i, j \in 1..Len(tasks') :
          i # j => tasks'[i].task_id # tasks'[j].task_id
    /\ (ret'.op = "resolve" /\ ret'.id \notin TaskIdsOf(tasks)) =>
          (tasks' = tasks /\ counter' = counter)
    /\ ret'.op = "next_pending" =>
          /\ tasks' = tasks
          /\ IF \A i \in 1..Len(tasks) : tasks[i].status # "pending"
             THEN ret'.hit = 0
             ELSE /\ ret'.hit \in 1..Len(tasks)
                  /\ tasks[ret'.hit].status = "pending"
                  /\ \A j \in 1..(ret'.hit - 1) : tasks[j].status # "pending"
    /\ ret'.op = "list_tasks" => (tasks' = tasks /\ ret'.listed = tasks)

\* C21: escalation tasks are an audit trail: after any sequence of enqueue,
\* resolve, list_tasks and next_pending no task has been removed from the
\* queue and task ids are pairwise distinct; a task's status changes only
\* from pending to resolved and only through resolve on its id; resolve on an
\* unknown id changes nothing; next_pending returns the oldest task still
\* pending, or none.
C21_QueueIsAuditTrail == [][C21_Step]_vars

\* C21 witness: of three tasks the first has been resolved, and next_pending
\* has returned the second
C21_Witness ==
    /\ ret.op = "next_pending"
    /\ Len(tasks) = 3
    /\ tasks[1].status = "resolved"
    /\ tasks[2].status = "pending"
    /\ ret.hit = 2
    /\ ret.id = TaskId(2)

\* The repair requests among the requests of the call
RepairRequests(sent) == {i \in 1..Len(sent) : sent[i].to = "error_collaborator"}

\* The call is over
CallOver == pc \in {"returned", "AgentError"}

\* The response holds the structure the agents read: a JSON object with
\* members
ParsesToObject(response) ==
    ~response.blank /\ _extract_json(response) = "object"

\* C22: within one structured collaborator call, a response that cannot be
\* parsed into the expected structure triggers exactly one generic repair
\* request carrying the prior exchange and an error description; the call
\* becomes a hard failure (AgentError) only if that single repair yields no
\* parseable response, and a second repair request is never issued. (Stated
\* for the responses that are not blank; the blank ones are C23's.)
C22_OneRepairRequest ==
    (ret.op = "_call_json" /\ CallOver /\ ~ret.first.blank) =>
        /\ Cardinality(RepairRequests(ret.sent)) <= 1
        /\ ~ParsesToObject(ret.first) =>
              /\ Cardinality(RepairRequests(ret.sent)) = 1
              /\ ret.sent[2].messages = ret.sent[1].messages
              /\ ret.sent[2].last_response = ret.first
              /\ ret.sent[2].error_description # ""
        /\ pc = "AgentError" =>
              /\ Cardinality(RepairRequests(ret.sent)) = 1
              /\ ~ParsesToObject(ret.second)

\* C23: an empty response is handled like a malformed one: the call fails
\* only after the one repair request has been made and has failed too.
C23_EmptyResponseRepaired ==
    (ret.op = "_call_json" /\ pc = "AgentError" /\ ret.first.blank) =>
        Cardinality(RepairRequests(ret.sent)) = 1

\* A deactivate call: it raises nothing; the mapping keeps its records and
\* their order; the record with that id, when there is one, is as before but
\* inactive; every other record, the matchers and the sequence counter are as
\* before; for an id that names no record the library is as before; and a
\* second call with the same id changes nothing more
C24_Step ==
    ret'.op = "deactivate" =>
        LET before == library.templates
            after == library'.templates
            i == IndexOf(before, ret'.id)
        IN  /\ ~ret'.raised
            /\ Len(after) = Len(before)
            /\ \A j \in 1..Len(before) : j # i => after[j] = before[j]
            /\ i # 0 => after[i] = [before[i] EXCEPT !.is_active = FALSE]
            /\ i = 0 => library' = library
            /\ library'.compiled = library.compiled
            /\ library'.sequence = library.sequence
            /\ deactivate(library', ret'.id) = library'

\* C24: deactivate(id) sets active=false on the record with that id when it
\* exists and changes no other record; when the id is absent it is a no-op
\* that raises no error and leaves the store unchanged; deactivating twice
\* equals deactivating once; no record is ever removed from the store by
\* deactivation.
C24_DeactivateFrame == [][C24_Step]_vars

\* C24 witness: the first of two records has been deactivated, it is still in
\* the mapping, and the second is active
C24_Witness ==
    /\ ret.op = "deactivate"
    /\ Len(library.templates) = 2
    /\ library.templates[1].template_id = ret.id
    /\ ~library.templates[1].is_active
    /\ library.templates[2].is_active

\* C25: save followed by load is a round trip: a library loaded from what
\* another library saved holds the same records in the same insertion order,
\* with the same id, pattern and active flag, inactive records included, and
\* match gives the same result on both for every line.
C25_SaveLoadRoundTrip ==
    LET loaded == NewLibrary(save(library))
    IN  /\ ~loaded.raised
        /\ loaded.lib.templates = library.templates
        /\ \A text \in Canon :
              /\ match(loaded.lib, text).raised = match(library, text).raised
              /\ match(loaded.lib, text).hit = match(library, text).hit

\* The persisted library cannot be loaded: its text is not JSON, or a stored
\* regex no longer compiles
CorruptLibrary ==
    /\ file.exists
    /\ \/ ~file.parses
       \/ \E i \in 1..Len(file.templates) : ~Compiles(file.templates[i].regex)

\* The persisted catalog cannot be loaded
CorruptCatalog == NewCatalog(catalog.path).raised

C26_Step ==
    /\ CorruptCatalog =>
          /\ pc = "new" => pc' = "JSONDecodeError"
          /\ pc' \in {"new", "JSONDecodeError"}
          /\ catalog' = catalog /\ file' = file
          /\ library' = EmptyLibrary /\ idx' = 0 /\ metrics' = metrics
    /\ CorruptLibrary =>
          /\ pc = "open" => pc' \in {"re.error", "JSONDecodeError"}
          /\ pc' \in {"new", "start", "open", "AgentError", "re.error", "JSONDecodeError"}
          /\ file' = file /\ catalog'.path = catalog.path
          /\ library' = EmptyLibrary /\ idx' = 0 /\ metrics' = metrics /\ rows' = <<>>

\* C26: when the persisted template library or source catalog cannot be
\* loaded (a stored pattern that no longer compiles included), the run ends
\* with an exception before any line is processed, never continues with an
\* empty store in its place, and never overwrites the persisted document.
C26_CorruptIsFatal == [][C26_Step]_vars

\* A run on a non-empty input whose library document is not JSON has ended
\* with the exception, after the source was registered in the catalog's
\* entries; and the catalog document is still the one found
C26_Witness ==
    /\ pc = "JSONDecodeError"
    /\ file.exists /\ ~file.parses
    /\ Len(lines) > 0
    /\ SourceId \in catalog.entries
    /\ catalog.path.entries = {OtherSource}

\* The place of each step in the learning of one line
Rank(p) ==
    CASE p = "derive" -> 1
      [] p = "review" -> 2
      [] p = "repair" -> 3
      [] p = "repair_retry" -> 4
      [] p = "review2" -> 5
      [] p = "detect" -> 6
      [] p \in {"store", "resolve"} -> 7
      [] p = "review3" -> 8
      [] p = "apply" -> 9

LearningOutcomes == {"stored", "replaced", "refined", "rejected", "repair_failed", "escalated"}

C27_Step ==
    /\ (pc = "match" /\ idx' = idx + 1 /\ ActiveMatches(library.templates, lines[idx + 1]) # {})
          => pc' \notin LearningPcs
    /\ pc' = "derive" => pc = "match" /\ idx' = idx + 1
    /\ (pc \in LearningPcs /\ pc' \in LearningPcs) => Rank(pc) < Rank(pc') /\ idx' = idx
    /\ pc' \in {"repair", "repair_retry"} => pc \in ReviewPcs \cup {"repair"} /\ report' = "rejected"
    /\ pc' = "detect" => pc \in ReviewPcs /\ report' = "approved"
    /\ pc' = "store" => pc = "detect" /\ conflicts' = <<>>
    /\ pc' = "resolve" => pc = "detect" /\ conflicts' # <<>>
    /\ (pc \in LearningPcs /\ pc' \notin LearningPcs)
          => pc' = "match" /\ outcome' \in LearningOutcomes

\* C27: the learning of a line keeps its order: a line that an active template
\* matches starts no learning step; otherwise one proposal is requested, the
\* steps only go forward (so at most three reviews), the repairer runs only
\* after a review that rejected, the conflict check only after a review that
\* approved, the adjudicator only after a conflict check that found a
\* conflict, and the learning ends in one outcome among stored, replaced,
\* refined, rejected, repair_failed and escalated.
C27_LineStateMachine == [][C27_Step]_vars

\* Every active record of the store has an entry in the example cache
AllActiveCached ==
    \A i \in 1..Len(library.templates) :
        library.templates[i].is_active
            => library.templates[i].template_id \in DOMAIN examples

\* C28: when the conflict check of an approved candidate runs, and when a
\* candidate found without conflict is about to be stored, every active
\* record of the store, the records loaded from the persisted document
\* included, has a cached example line, so that no active record is skipped.
C28_CheckCoversActive == pc \in {"detect", "store"} => AllActiveCached

Counters == {"processed_lines", "matched_lines", "learned_templates", "escalations"}

\* Every processed line is counted as matched, as learned or as an escalation
Accounted(m) ==
    m.processed_lines = m.matched_lines + m.learned_templates + m.escalations

C29_Step ==
    /\ \A k \in Counters : metrics'[k] >= metrics[k]
    /\ metrics'.processed_lines =
          IF pc = "match" /\ idx' = idx + 1 THEN metrics.processed_lines + 1
          ELSE metrics.processed_lines
    /\ metrics'.processed_lines = idx'
    /\ pc' \in {"match", "done"} => Accounted(metrics')

\* C29: in the first run of an orchestrator, when a line of phase 1 has been
\* processed without an exception, processed_lines = matched_lines +
\* learned_templates + escalations; a line adds exactly 1 to processed_lines
\* (so exactly 1 to exactly one of the three others), and no counter ever
\* decreases.
C29_CounterAccounting == [][C29_Step]_vars

\* Three lines have been processed: one matched, one learned, one escalated
C29_Witness ==
    /\ pc = "match"
    /\ idx = 3
    /\ metrics.matched_lines = 1
    /\ metrics.learned_templates = 1
    /\ metrics.escalations = 1

\* C30: after any prefix of phase 1 the number of tasks enqueued in the
\* InteractionService during the run equals the escalations counter: every
\* counted escalation (repair_failed, rejected, escalated) has exactly one
\* task and no case enqueues more than one.
C30_QueueMatchesCounter ==
    pc \in {"match", "done"} => Len(tasks) = metrics.escalations

\* The ids of the active records of the store
ActiveIds == {library.templates[i].template_id :
                 i \in {j \in 1..Len(library.templates) : library.templates[j].is_active}}

\* C31: in every state of phase 1 each key of the example cache is the id of
\* a record that is in the store and active: a deactivated template keeps no
\* example, and what the conflict check reported, until the plan is applied,
\* are ids of active records.
C31_ExamplesOfActiveOnly ==
    /\ DOMAIN examples \subseteq ActiveIds
    /\ pc \in {"resolve", "review3", "apply"} =>
          \A k \in 1..Len(conflicts) : conflicts[k] \in ActiveIds

\* Phase 1 is between two lines, a template that had matched a line has
\* been deactivated by a plan, and the cache holds the example of the
\* template stored in its place
C31_Witness ==
    /\ pc = "match"
    /\ outcome = "replaced"
    /\ metrics.matched_lines > 0
    /\ \E i \in 1..Len(library.templates) : ~library.templates[i].is_active
    /\ examples # <<>>

\* The records of old are the first records of new, in the same order, with
\* the same id and pattern, and none of them went from inactive to active
GrownFrom(new, old) ==
    /\ Len(new) >= Len(old)
    /\ \A i \in 1..Len(old) :
          /\ new[i].template_id = old[i].template_id
          /\ new[i].regex = old[i].regex
          /\ new[i].is_active => old[i].is_active

C32_Step ==
    /\ GrownFrom(library'.templates, library.templates)
    /\ pc \in LearningPcs =>
          /\ Len(library'.templates) <= Len(library.templates) + 1
          /\ \A i \in (Len(library.templates) + 1)..Len(library'.templates) :
                LET id == library'.templates[i].template_id
                IN  /\ id = SourceId \o <<"-">> \o Format04d(IntOf(RSplitLast(id)))
                    /\ \A n \in NumericSuffixes(library.templates) : n < IntOf(RSplitLast(id))

\* C32: during a run the pipeline only appends to the store and only
\* deactivates: no record is removed, no record goes from inactive to
\* active, no existing record's pattern changes, the order of the existing
\* records never changes, and an id stored during the run has a sequence
\* number above that of every id already in the store.
C32_AppendOnly == [][C32_Step]_vars

\* Two templates were stored in a run that loaded one active record, and a
\* plan deactivated the loaded record: the store holds the three in the
\* order loaded, first stored, second stored
C32_Witness ==
    /\ pc = "match"
    /\ file.exists
    /\ Len(file.templates) = 1
    /\ Len(library.templates) = 3
    /\ metrics.learned_templates = 2
    /\ file.templates[1].is_active
    /\ ~library.templates[1].is_active
    /\ library.templates[1].template_id = file.templates[1].template_id

\* What match returns for text on the store before the step stays what it
\* returns after the step as long as the returned record is active; the
\* record stops being active only when a replace_conflicting plan that lists
\* it is applied; and the final pass labels every line with what match
\* returns for it on the store phase 1 left
C33_Step ==
    /\ \A text \in Canon :
          LET m == match(library, text)
          IN  (~m.raised /\ m.hit # 0) =>
                 IF library'.templates[m.hit].is_active
                 THEN /\ ~match(library', text).raised
                      /\ match(library', text).hit = m.hit
                 ELSE /\ pc = "apply"
                      /\ plan.decision = "replace_conflicting"
                      /\ library.templates[m.hit].template_id \in plan.replaced_ids
    /\ pc' = "done" =>
          \A j \in 1..Len(lines) :
              LET m == match(library, lines[j])
              IN  m.hit # 0 => rows'[j].template_id = library.templates[m.hit].template_id

\* C33: phase-1 labels are stable for surviving templates: a line that
\* matched template T in phase 1 is labeled with T in phase 2 if T is still
\* active when phase 1 ends (no template learned later and no template
\* inserted earlier takes the line over), and the match can change only when
\* T was deactivated by a replace_conflicting resolution.
C33_LabelsStable == [][C33_Step]_vars

\* The run has finished: its first line matched the loaded template in phase
\* 1, a template learned later in the run matches that line as well, and the
\* row of the line carries the loaded template's id
C33_Witness ==
    /\ pc = "done"
    /\ Len(library.templates) = 2
    /\ metrics.matched_lines >= 1
    /\ metrics.learned_templates = 1
    /\ 1 \in ActiveMatches(library.templates, lines[1])
    /\ 2 \in ActiveMatches(library.templates, lines[1])
    /\ rows[1].template_id = library.templates[1].template_id

\* The record of the store with the given id
RecordOf(id) == library.templates[IndexOf(library.templates, id)]

\* C34: every cached example is a line its template matches: for each entry
\* of the example cache the pattern of the record with that id fully matches
\* the cached text; so every line whose text is a cached example carries a
\* non-empty template id in phase 2.
C34_ExampleMatchesTemplate ==
    /\ \A id \in DOMAIN examples :
          /\ Compiles(RecordOf(id).regex)
          /\ FullMatch(RecordOf(id).regex, examples[id])
    /\ pc = "done" =>
          \A j \in 1..Len(lines) :
              (\E id \in DOMAIN examples : examples[id] = lines[j])
                  => rows[j].template_id # NoId

\* C35: the report of each call of process, a second call on the same
\* orchestrator included, is consistent with that call alone: processed_lines
\* is the number of lines of the call's input, and matched_lines +
\* learned_templates, which count only lines and templates of that input, do
\* not exceed it.
C35_ReportOfThisRun ==
    ret.op = "process" =>
        /\ ret.processed_lines = Len(lines)
        /\ ret.matched_lines + ret.learned_templates <= ret.processed_lines

====
